---- MODULE Spec2Model ----
(***************************************************************************)
(* A model of bita's content-defined chunker (src/src/chunker.rs), of the  *)
(* archiver's per-unique-chunk callback (src/src/compress_cmd.rs) and of   *)
(* the compress command's option parsing (src/src/main.rs).                *)
(*                                                                         *)
(* A u32 is modelled as the set of its set bit positions (0 = least        *)
(* significant): xor is the symmetric difference, a rotation moves the     *)
(* positions modulo 32, and "hash | mask == hash" is mask \subseteq hash.  *)
(***************************************************************************)
EXTENDS Integers, Sequences, FiniteSets, TLC

\* ------------------------------------------------------------------ bounds

\* Longest source (preloaded bytes included), in bytes.
MaxLen == 5
\* Largest min_chunk_size / max_chunk_size handed to ChunkerParams::new.
MaxChunk == 3
\* Largest BuzHash window handed to BuzHash::new.
MaxWindow == 2
\* Largest filter_bits handed to ChunkerParams::new by a library caller.
MaxBits == 1

\* const CHUNKER_BUF_SIZE: usize = 1024 * 1024, scaled down so that refills
\* fall inside chunks and inside the hash initialisation.
CHUNKER_BUF_SIZE == 3

\* The byte values the modelled sources hold.
Bytes == {0, 1}

\* The io::Error values a read of the source may return.
IoErrors == {"EIO", "EINTR"}

\* ------------------------------------------------------------ u32 as bits

Bits32 == 0..31

BitXor(a, b) == (a \ b) \cup (b \ a)

\* u32::rotate_left
RotL(x, n) == {(i + n) % 32 : i \in x}

\* !0u32 >> n for a shift amount n in 0..31
ShrAllOnes(n) == {i \in Bits32 : i <= 31 - n}

Min(a, b) == IF a < b THEN a ELSE b

\* ---------------------------------------------------------------- BuzHash

\* The 256-entry table BuzHash::new derives from the seed, on the modelled
\* byte values.
BuzTable(b) == IF b = 0 THEN {1, 4, 30} ELSE {0, 2, 31}

\* BuzHash::new(window_size, seed)
BuzHashNew(w) == [window_size |-> w, buf |-> <<>>, hash_sum |-> {}]

\* BuzHash::valid: at least window_size bytes were fed.
BuzValid(h) == Len(h.buf) >= h.window_size

\* BuzHash::init: feed one byte while the window fills. It must count the
\* bytes across calls: Chunker::scan calls it in a loop until valid(), and
\* the chunker's tests expect cuts with a window of 5 and of 20 bytes.
BuzInit(h, b) ==
  [h EXCEPT !.buf = Append(h.buf, b),
            !.hash_sum = BitXor(h.hash_sum,
                                RotL(BuzTable(b), (h.window_size - 1 - Len(h.buf)) % 32))]

\* BuzHash::input: slide the window by one byte.
BuzInput(h, b) ==
  IF Len(h.buf) < h.window_size
  THEN BuzInit(h, b)
  ELSE [h EXCEPT !.buf = Append(Tail(h.buf), b),
                 !.hash_sum = BitXor(BitXor(RotL(h.hash_sum, 1),
                                            RotL(BuzTable(Head(h.buf)), h.window_size % 32)),
                                     BuzTable(b))]

\* BuzHash::sum
BuzSum(h) == h.hash_sum

\* ------------------------------------------------------------------ state

VARIABLES
  pc,                  \* where the caller / Chunker::scan stands
  filter_bits,         \* ChunkerParams.filter_bits
  filter_mask,         \* ChunkerParams.filter_mask, Chunker.filter_mask
  min_chunk_size,      \* Chunker.min_chunk_size
  max_chunk_size,      \* Chunker.max_chunk_size
  buzhash,             \* Chunker.buzhash
  source_data,         \* every byte the source holds, peeked bytes included
  source_pos,          \* how many of them the source has handed out
  preloaded,           \* how many bytes the caller peeked and preloaded
  source_buf,          \* Chunker.source_buf
  source_index,        \* scan: source_index
  buf_index,           \* scan: buf_index
  chunk_start,         \* scan: chunk_start
  buzhash_input_limit, \* scan: buzhash_input_limit
  buf_size,            \* append_to_buf: buf_size
  read_size,           \* append_to_buf: read_size
  emitted,             \* the calls of scan's callback, in order
  hash_log,            \* the calls of BuzHash::init, input and sum made by scan, in order
  source_err,          \* the error a read of the source returned, or "none"
  ret,                 \* what scan returned
  config,              \* parse_opts: the CompressConfig it returned
  cli_error,           \* parse_opts: the error it returned, or "none"
  hash_length,         \* chunk_into_file: config.hash_length
  total_unique_chunks,     \* chunk_into_file: total_unique_chunks
  total_unique_chunk_size, \* chunk_into_file: total_unique_chunk_size
  total_compressed_size,   \* chunk_into_file: total_compressed_size
  archive_offset,      \* chunk_into_file: archive_offset
  chunk_descriptors,   \* chunk_into_file: chunk_descriptors
  chunk_file,          \* the bytes written to the chunk file
  last_chunk,          \* the CompressedChunk process_chunk was last called with
  archive_pc,          \* chunk_into_file: "chunking" or "panicked"
  pipe_pc,             \* unique_compressed_chunks: "idle", "running" or "returned"
  pool_size,           \* the number of threads of the worker pool
  chunk_map,           \* the strong hashes the producer has seen, in first-seen order
  work_queue,          \* the jobs submitted to the pool that no worker has taken
  workers,             \* what each worker thread is compressing, or Idle
  fanin,               \* the items submitted to the ordered fan-in, not yet delivered
  expected,            \* the sequence number the fan-in delivers next
  chunk_order,         \* the ChunkSourceDescriptor vector, in source order
  unique_chunks,       \* the calls of on_unique, in order
  rebuild_order        \* run: ChunkDictionary.rebuild_order

paramVars == <<filter_bits, filter_mask, min_chunk_size, max_chunk_size>>
sourceVars == <<source_data, source_pos, preloaded, source_err>>
loopVars == <<buzhash, source_buf, source_index, buf_index, chunk_start, emitted, hash_log>>
appendVars == <<buf_size, read_size>>
cliVars == <<config, cli_error>>
archiveVars == <<hash_length, total_unique_chunks, total_unique_chunk_size,
                 total_compressed_size, archive_offset, chunk_descriptors,
                 chunk_file, last_chunk, archive_pc>>
pipeVars == <<pipe_pc, pool_size, chunk_map, work_queue, workers, fanin, expected,
              chunk_order, unique_chunks, rebuild_order>>
chunkerVars == <<pc, paramVars, sourceVars, loopVars, buzhash_input_limit, appendVars, ret>>

\* Every sequence over S of length at most n.
SeqsUpTo(S, n) == UNION {[1..k -> S] : k \in 0..n}

Zeros(n) == [i \in 1..n |-> 0]

\* ----------------------------------------------------- ChunkerParams::new

\* filter_mask: !0 >> (32 - chunk_filter_bits), in u32 arithmetic. With
\* overflow checks (a debug build) a subtraction below zero and a shift by 32
\* panic; without them (a release build) the subtraction wraps modulo 2^32
\* and the shift amount is taken modulo 32.
FilterMaskOverflows(bits) == bits > 32 \/ 32 - bits >= 32

FilterMask(bits) == ShrAllOnes((32 - bits) % 32)

\* ChunkerParams::new(chunk_filter_bits, min_chunk_size, max_chunk_size,
\* BuzHash::new(w, seed)): no argument is checked.
ParamsNew(bits, mn, mx, w, overflow_checks) ==
  /\ filter_bits' = bits
  /\ min_chunk_size' = mn
  /\ max_chunk_size' = mx
  /\ buzhash' = BuzHashNew(w)
  /\ IF FilterMaskOverflows(bits) /\ overflow_checks
     THEN /\ pc' = "panicked"
          /\ UNCHANGED filter_mask
     ELSE /\ pc' = "params"
          /\ filter_mask' = FilterMask(bits)
  /\ UNCHANGED <<cliVars, archiveVars, pipeVars>>
  /\ UNCHANGED <<sourceVars, source_buf, source_index, buf_index, chunk_start,
                 emitted, hash_log, buzhash_input_limit, appendVars, ret>>

\* A caller of the library (the chunker's tests) builds the parameters.
ChunkerParamsNew(bits, mn, mx, w, overflow_checks) ==
  /\ pc = "start"
  /\ ParamsNew(bits, mn, mx, w, overflow_checks)

\* Chunker::new(params, source): copies the parameters; source_buf is empty.
ChunkerNew ==
  /\ pc = "params"
  /\ pc' = "ready"
  /\ source_buf' = <<>>
  /\ UNCHANGED <<cliVars, archiveVars, pipeVars>>
  /\ UNCHANGED <<paramVars, sourceVars, buzhash, source_index, buf_index,
                 chunk_start, emitted, hash_log, buzhash_input_limit, appendVars, ret>>

\* Chunker::preload(data), called by a caller that peeked the first k bytes
\* of the source: data is those bytes, and the source continues after them.
Preload(k) ==
  /\ pc = "ready"
  /\ preloaded = 0
  /\ k \in 1..Len(source_data)
  /\ source_buf' = source_buf \o SubSeq(source_data, 1, k)
  /\ source_pos' = k
  /\ preloaded' = k
  /\ UNCHANGED <<cliVars, archiveVars, pipeVars>>
  /\ UNCHANGED <<pc, paramVars, source_data, source_err, buzhash, source_index,
                 buf_index, chunk_start, emitted, hash_log, buzhash_input_limit, appendVars, ret>>

\* ------------------------------------------------------------ Chunker::scan

\* The part of the state the loops of scan work on, as a record.
Cur ==
  [buzhash |-> buzhash, source_buf |-> source_buf, source_index |-> source_index,
   buf_index |-> buf_index, chunk_start |-> chunk_start, emitted |-> emitted,
   hash_log |-> hash_log]

SetCur(st) ==
  /\ buzhash' = st.buzhash
  /\ source_buf' = st.source_buf
  /\ source_index' = st.source_index
  /\ buf_index' = st.buf_index
  /\ chunk_start' = st.chunk_start
  /\ emitted' = st.emitted
  /\ hash_log' = st.hash_log

\* A limit that forgets the window.
InputLimitNoWindow(mn, w) == mn

\* let buzhash_input_limit = if min_chunk_size >= window_size
\*     { min_chunk_size - window_size } else { 0 }
InputLimit(mn, w) == IF mn >= w THEN mn - w ELSE 0

\* The callback: result(offset, data).
Emit(st, offset, data) == Append(st.emitted, [offset |-> offset, data |-> data])

\* self.buzhash.init(val), input(val) or sum() is called: pos is how many
\* bytes of the source scan has consumed, the byte at hand included, and len
\* is the chunk length at that byte.
Logged(st, call, pos) ==
  Append(st.hash_log, [call |-> call, pos |-> pos, len |-> pos - st.chunk_start])

\* The guard of the hash initialisation loop.
InitGuard(st) == ~BuzValid(st.buzhash) /\ st.buf_index < Len(st.source_buf)

\* A pass of the initialisation loop that leaves source_index alone.
InitStepKeepsSourceIndex(st) ==
  [st EXCEPT !.buzhash = BuzInit(st.buzhash, st.source_buf[st.buf_index + 1]),
             !.hash_log = Logged(st, "init", st.source_index + 1),
             !.buf_index = st.buf_index + 1]

\* One pass of the hash initialisation loop.
InitStep(st) ==
  [st EXCEPT !.buzhash = BuzInit(st.buzhash, st.source_buf[st.buf_index + 1]),
             !.hash_log = Logged(st, "init", st.source_index + 1),
             !.buf_index = st.buf_index + 1,
             !.source_index = st.source_index + 1]

\* The guard of the scanning loop.
ScanGuard(st) == st.buf_index < Len(st.source_buf)

\* got_chunk that lets a chunk grow one byte past max_chunk_size.
GotChunkAboveMax(chunk_length, hash) ==
  chunk_length > max_chunk_size \/ filter_mask \subseteq hash

\* got_chunk, for a chunk_length that reached min_chunk_size.
GotChunk(chunk_length, hash) ==
  chunk_length >= max_chunk_size \/ filter_mask \subseteq hash

\* self.source_buf.drain(..chunk_length) that leaves the last byte of the
\* chunk in the buffer.
DrainFrontOneShort(buf, chunk_length) == SubSeq(buf, chunk_length, Len(buf))

\* self.source_buf.drain(..chunk_length)
DrainFront(buf, chunk_length) == SubSeq(buf, chunk_length + 1, Len(buf))

\* One pass of the scanning loop. The digest is read (sum) only when the
\* chunk reached min_chunk_size and not yet max_chunk_size.
ScanStep(st, limit) ==
  LET val == st.source_buf[st.buf_index + 1]
      chunk_end == st.source_index + 1
      chunk_length == chunk_end - st.chunk_start
      fed == chunk_length >= limit
      bh == IF fed THEN BuzInput(st.buzhash, val) ELSE st.buzhash
      st1 == IF fed THEN [st EXCEPT !.hash_log = Logged(st, "input", chunk_end)] ELSE st
      st2 == IF chunk_length >= min_chunk_size /\ ~(chunk_length >= max_chunk_size)
             THEN [st1 EXCEPT !.hash_log = Logged(st1, "sum", chunk_end)]
             ELSE st1
  IN IF chunk_length >= min_chunk_size /\ GotChunk(chunk_length, BuzSum(bh))
     THEN [st2 EXCEPT !.buzhash = bh,
                      !.source_index = st.source_index + 1,
                      !.emitted = Emit(st, st.chunk_start, SubSeq(st.source_buf, 1, chunk_length)),
                      !.source_buf = DrainFront(st.source_buf, chunk_length),
                      !.buf_index = 0,
                      !.chunk_start = chunk_end]
     ELSE [st2 EXCEPT !.buzhash = bh,
                      !.buf_index = st.buf_index + 1,
                      !.source_index = st.source_index + 1]

\* A flush that forgets the residual buffer.
EofFlushDropsResidual(st) == st

\* A flush that calls the callback without looking at the buffer.
EofFlushEmitsEmpty(st) == [st EXCEPT !.emitted = Emit(st, st.chunk_start, st.source_buf)]

\* The end-of-file branch: the residual buffer is the last chunk.
EofFlush(st) ==
  IF st.source_buf # <<>>
  THEN [st EXCEPT !.emitted = Emit(st, st.chunk_start, st.source_buf)]
  ELSE st

\* scan is entered: its locals are set.
ScanBegin ==
  /\ pc = "ready"
  /\ pc' = "fill"
  /\ source_index' = 0
  /\ buf_index' = 0
  /\ chunk_start' = 0
  /\ buzhash_input_limit' = InputLimit(min_chunk_size, buzhash.window_size)
  /\ UNCHANGED <<cliVars, archiveVars, pipeVars>>
  /\ UNCHANGED <<paramVars, sourceVars, buzhash, source_buf, emitted, hash_log, appendVars, ret>>

\* append_to_buf is entered: the buffer grows by count zero bytes.
AppendBegin ==
  /\ pc = "fill"
  /\ pc' = "read"
  /\ read_size' = 0
  /\ buf_size' = Len(source_buf)
  /\ source_buf' = source_buf \o Zeros(CHUNKER_BUF_SIZE)
  /\ UNCHANGED <<cliVars, archiveVars, pipeVars>>
  /\ UNCHANGED <<paramVars, sourceVars, buzhash, source_index, buf_index,
                 chunk_start, emitted, hash_log, buzhash_input_limit, ret>>

\* A read that always writes at buf_size, whatever was read before.
ReadSomeAtBufSize(rc) ==
  /\ pc = "read"
  /\ read_size < CHUNKER_BUF_SIZE
  /\ rc \in 1..Min(Len(source_data) - source_pos, CHUNKER_BUF_SIZE - read_size)
  /\ source_buf' = [i \in 1..Len(source_buf) |->
                      IF i > buf_size /\ i <= buf_size + rc
                      THEN source_data[source_pos + (i - buf_size)]
                      ELSE source_buf[i]]
  /\ source_pos' = source_pos + rc
  /\ read_size' = read_size + rc
  /\ UNCHANGED <<cliVars, archiveVars, pipeVars>>
  /\ UNCHANGED <<pc, paramVars, source_data, preloaded, source_err, buzhash,
                 source_index, buf_index, chunk_start, emitted, hash_log, buzhash_input_limit,
                 buf_size, ret>>

\* source.read(&mut buf[offset..]) returns Ok(rc), rc > 0: a read may be short.
ReadSome(rc) ==
  /\ pc = "read"
  /\ read_size < CHUNKER_BUF_SIZE
  /\ rc \in 1..Min(Len(source_data) - source_pos, CHUNKER_BUF_SIZE - read_size)
  /\ source_buf' = [i \in 1..Len(source_buf) |->
                      IF i > buf_size + read_size /\ i <= buf_size + read_size + rc
                      THEN source_data[source_pos + (i - buf_size - read_size)]
                      ELSE source_buf[i]]
  /\ source_pos' = source_pos + rc
  /\ read_size' = read_size + rc
  /\ UNCHANGED <<cliVars, archiveVars, pipeVars>>
  /\ UNCHANGED <<pc, paramVars, source_data, preloaded, source_err, buzhash,
                 source_index, buf_index, chunk_start, emitted, hash_log, buzhash_input_limit,
                 buf_size, ret>>

\* An error path that flushes the buffered bytes before it returns.
ScanFlushesOnErr(e) ==
  /\ pc' = "done"
  /\ ret' = [ok |-> FALSE, err |-> e]
  /\ SetCur(EofFlush([Cur EXCEPT !.source_buf = SubSeq(source_buf, 1, buf_size + read_size)]))

\* let rc = append_to_buf(...)?: an error leaves scan at once, with the
\* error as scan's result and nothing more done.
ScanReturnsErr(e) ==
  /\ pc' = "done"
  /\ ret' = [ok |-> FALSE, err |-> e]
  /\ UNCHANGED loopVars

\* source.read returns Err(e): the ? operators of append_to_buf and of scan
\* return it at once.
ReadErr(e) ==
  /\ pc = "read"
  /\ read_size < CHUNKER_BUF_SIZE
  /\ source_err' = e
  /\ ScanReturnsErr(e)
  /\ UNCHANGED <<cliVars, archiveVars, pipeVars>>
  /\ UNCHANGED <<paramVars, source_data, source_pos, preloaded,
                 buzhash_input_limit, appendVars>>

\* append_to_buf returns Ok(read_size), after count bytes or after a read
\* of 0 bytes: the buffer is cut to what was read. With rc = 0 scan flushes
\* the buffer and returns Ok; otherwise it goes on to the loops.
AppendReturn ==
  /\ pc = "read"
  /\ read_size = CHUNKER_BUF_SIZE \/ source_pos = Len(source_data)
  /\ LET st == [Cur EXCEPT !.source_buf = SubSeq(source_buf, 1, buf_size + read_size)]
     IN IF read_size = 0
        THEN /\ SetCur(EofFlush(st))
             /\ pc' = "done"
             /\ ret' = [ok |-> TRUE, err |-> "none"]
        ELSE /\ SetCur(st)
             /\ pc' = "init"
             /\ UNCHANGED ret
  /\ UNCHANGED <<cliVars, archiveVars, pipeVars>>
  /\ UNCHANGED <<paramVars, sourceVars, buzhash_input_limit, appendVars>>

\* while !self.buzhash.valid() && buf_index < self.source_buf.len()
InitLoop ==
  /\ pc = "init"
  /\ IF InitGuard(Cur)
     THEN SetCur(InitStep(Cur)) /\ UNCHANGED pc
     ELSE pc' = "scan" /\ UNCHANGED loopVars
  /\ UNCHANGED <<cliVars, archiveVars, pipeVars>>
  /\ UNCHANGED <<paramVars, sourceVars, buzhash_input_limit, appendVars, ret>>

\* while buf_index < self.source_buf.len()
ScanLoop ==
  /\ pc = "scan"
  /\ IF ScanGuard(Cur)
     THEN SetCur(ScanStep(Cur, buzhash_input_limit)) /\ UNCHANGED pc
     ELSE pc' = "fill" /\ UNCHANGED loopVars
  /\ UNCHANGED <<cliVars, archiveVars, pipeVars>>
  /\ UNCHANGED <<paramVars, sourceVars, buzhash_input_limit, appendVars, ret>>

\* ------------------------------------------------- a whole error-free scan

RECURSIVE InitAll(_)
\* The hash initialisation loop, run to its end.
InitAll(st) == IF InitGuard(st) THEN InitAll(InitStep(st)) ELSE st

RECURSIVE ScanAll(_, _)
\* The scanning loop, run to its end.
ScanAll(st, limit) == IF ScanGuard(st) THEN ScanAll(ScanStep(st, limit), limit) ELSE st

RECURSIVE RunFrom(_, _, _)
\* The outer loop of scan on a source that holds data, has handed out pos
\* bytes, fills every read and never fails: what the callback has received
\* when scan returns.
RunFrom(st, data, pos) ==
  LET rc == Min(CHUNKER_BUF_SIZE, Len(data) - pos)
      filled == [st EXCEPT !.source_buf = st.source_buf \o SubSeq(data, pos + 1, pos + rc)]
  IN IF rc = 0
     THEN EofFlush(st).emitted
     ELSE RunFrom(ScanAll(InitAll(filled), InputLimit(min_chunk_size, st.buzhash.window_size)),
                  data, pos + rc)

\* Chunker::new(params, source) followed by scan, nothing preloaded, on a
\* source that holds data.
ScanOf(data) ==
  RunFrom([buzhash |-> BuzHashNew(buzhash.window_size), source_buf |-> <<>>,
           source_index |-> 0, buf_index |-> 0, chunk_start |-> 0, emitted |-> <<>>,
           hash_log |-> <<>>],
          data, 0)

\* Chunker::new(params, source) followed by scan on a source that holds
\* data, with a buffer that takes the whole source in one refill.
ScanWhole(data) ==
  EofFlush(ScanAll(InitAll([buzhash |-> BuzHashNew(buzhash.window_size), source_buf |-> data,
                            source_index |-> 0, buf_index |-> 0, chunk_start |-> 0,
                            emitted |-> <<>>, hash_log |-> <<>>]),
                   InputLimit(min_chunk_size, buzhash.window_size))).emitted

\* ------------------------------------------------------------- parse_opts

\* A string is the sequence of its characters; an option that was not given
\* is the empty sequence, one that was given is <<its string>>.
Digits == {"0", "1", "2", "3", "4", "5", "6", "7", "8", "9"}

DigitValue(c) ==
  CASE c = "0" -> 0 [] c = "1" -> 1 [] c = "2" -> 2 [] c = "3" -> 3 [] c = "4" -> 4
    [] c = "5" -> 5 [] c = "6" -> 6 [] c = "7" -> 7 [] c = "8" -> 8 [] c = "9" -> 9

UnwrapOr(opt, default) == IF opt = <<>> THEN default ELSE opt[1]

\* chars().filter(|a| a.is_numeric()) and its complement.
NumericChars(str) == SelectSeq(str, LAMBDA c : c \in Digits)
OtherChars(str) == SelectSeq(str, LAMBDA c : c \notin Digits)

RECURSIVE ParseDigits(_)
\* str::parse of a string of digits.
ParseDigits(str) ==
  IF str = <<>> THEN 0
  ELSE 10 * ParseDigits(SubSeq(str, 1, Len(str) - 1)) + DigitValue(str[Len(str)])

\* str::parse::<u32>: Ok for a non-empty string of digits.
ParsesAsNumber(str) == str # <<>> /\ \A i \in 1..Len(str) : str[i] \in Digits

KnownUnits == {<<>>, <<"T", "i", "B">>, <<"G", "i", "B">>, <<"M", "i", "B">>,
               <<"K", "i", "B">>, <<"B">>}

\* parse_size panics on a string without a digit and on an unknown unit.
ParseSizePanics(size_str) ==
  NumericChars(size_str) = <<>> \/ OtherChars(size_str) \notin KnownUnits

\* parse_size
ParseSize(size_str) ==
  LET size_val == ParseDigits(NumericChars(size_str))
      size_unit == OtherChars(size_str)
  IN CASE size_unit = <<>> -> size_val
       [] size_unit = <<"T", "i", "B">> -> 1024 * 1024 * 1024 * 1024 * size_val
       [] size_unit = <<"G", "i", "B">> -> 1024 * 1024 * 1024 * size_val
       [] size_unit = <<"M", "i", "B">> -> 1024 * 1024 * size_val
       [] size_unit = <<"K", "i", "B">> -> 1024 * size_val
       [] size_unit = <<"B">> -> size_val

RECURSIVE BitLength(_)
\* The number of bits of x up to its highest set bit.
BitLength(x) == IF x = 0 THEN 0 ELSE 1 + BitLength(x \div 2)

\* usize::leading_zeros on a target whose usize has usize_bits bits.
LeadingZeros(x, usize_bits) == usize_bits - BitLength(x)

\* The widths of usize the program is built for.
UsizeBits == {32, 64}

\* parse_opts, the compress subcommand: the sizes are parsed, the filter
\* bits are derived from avg-chunk-size, and the checks bail out in the
\* order of the code. The result is Ok(Config::Compress(..)) or an error;
\* a panic of parse_size ends the program.
ParseOpts(avg_arg, min_arg, max_arg, window_arg, hash_length_arg, level_arg, compression_arg, usize_bits) ==
  /\ pc = "start"
  /\ LET avg_str == UnwrapOr(avg_arg, <<"6", "4", "K", "i", "B">>)
         min_str == UnwrapOr(min_arg, <<"1", "6", "K", "i", "B">>)
         max_str == UnwrapOr(max_arg, <<"1", "6", "M", "i", "B">>)
         window_str == UnwrapOr(window_arg, <<"1", "6", "B">>)
         hash_length_str == UnwrapOr(hash_length_arg, <<"6", "4">>)
         level_str == UnwrapOr(level_arg, <<"6">>)
         compression_str == UnwrapOr(compression_arg, "LZMA")
     IN IF \E str \in {avg_str, min_str, max_str, window_str} : ParseSizePanics(str)
        THEN /\ pc' = "panicked"
             /\ UNCHANGED <<config, cli_error>>
        ELSE LET avg_chunk_size == ParseSize(avg_str)
                 min_size == ParseSize(min_str)
                 max_size == ParseSize(max_str)
                 hash_window_size == ParseSize(window_str)
                 chunk_filter_bits == LeadingZeros(avg_chunk_size, usize_bits)
                 error ==
                   CASE ~ParsesAsNumber(level_str) -> "invalid compression level value"
                     [] compression_str \notin {"LZMA", "ZSTD", "NONE"} -> "invalid compression"
                     [] min_size > avg_chunk_size -> "min-chunk-size > avg-chunk-size"
                     [] max_size < avg_chunk_size -> "max-chunk-size < avg-chunk-size"
                     [] ParseDigits(level_str) < 1 \/ ParseDigits(level_str) > 19 ->
                          "compression level not within range"
                     [] ~ParsesAsNumber(hash_length_str) -> "invalid hash length value"
                     [] OTHER -> "none"
             IN IF error # "none"
                THEN /\ pc' = "cli_error"
                     /\ cli_error' = error
                     /\ UNCHANGED config
                ELSE /\ pc' = "parsed"
                     /\ config' = [hash_length |-> ParseDigits(hash_length_str),
                                   chunk_filter_bits |-> chunk_filter_bits,
                                   min_chunk_size |-> min_size,
                                   max_chunk_size |-> max_size,
                                   hash_window_size |-> hash_window_size,
                                   compression_level |-> ParseDigits(level_str),
                                   compression |-> compression_str]
                     /\ UNCHANGED cli_error
  /\ UNCHANGED <<paramVars, sourceVars, loopVars, buzhash_input_limit, appendVars, ret>>
  /\ UNCHANGED <<archiveVars, pipeVars>>

\* chunk_into_file sets up the chunker from the configuration.
ChunkIntoFileParams(overflow_checks) ==
  /\ pc = "parsed"
  /\ ParamsNew(config.chunk_filter_bits, config.min_chunk_size, config.max_chunk_size,
               config.hash_window_size, overflow_checks)

\* ------------------------------------------ chunk_into_file::process_chunk

\* The length of the strong hash (Blake2b: 64 bytes), scaled down.
HashSize == 2

\* Longest chunk handed to process_chunk.
MaxData == 2

\* Most unique chunks of one run.
MaxUnique == 2

\* The byte value the modelled compressor's output is made of: not a value
\* of the source, so that stored compressed and stored original bytes differ.
CompressedByte == 2

NoChunk == [hash |-> <<>>, offset |-> 0, data |-> <<>>, cdata |-> <<>>]

\* The CompressedChunk values unique_compressed_chunks may hand over.
CompressedChunks ==
  [hash : [1..HashSize -> Bytes],
   offset : {0},
   data : SeqsUpTo(Bytes, MaxData) \ {<<>>},
   cdata : {[i \in 1..n |-> CompressedByte] : n \in 0..(MaxData + 1)}]

\* let store_data = if cdata.len() > data.len() { &data } else { &cdata }
StoreData(comp_chunk) ==
  IF Len(comp_chunk.cdata) > Len(comp_chunk.data)
  THEN comp_chunk.data
  ELSE comp_chunk.cdata

\* The body of the closure process_chunk(comp_chunk). written is how many
\* bytes write_all gets into the chunk file: all of store_data, or fewer when
\* a write fails, and then expect("write chunk") panics. Slicing the hash
\* panics when hash_length exceeds its length.
ProcessChunkBody(comp_chunk, written) ==
  /\ last_chunk' = comp_chunk
  /\ IF hash_length > Len(comp_chunk.hash)
     THEN /\ archive_pc' = "panicked"
          /\ written = 0
          /\ UNCHANGED <<total_unique_chunks, total_unique_chunk_size,
                         total_compressed_size, archive_offset, chunk_descriptors,
                         chunk_file>>
     ELSE LET hash == SubSeq(comp_chunk.hash, 1, hash_length)
              store_data == StoreData(comp_chunk)
          IN /\ written \in 0..Len(store_data)
             /\ total_unique_chunks' = total_unique_chunks + 1
             /\ total_unique_chunk_size' = total_unique_chunk_size + Len(comp_chunk.data)
             /\ total_compressed_size' = total_compressed_size + Len(store_data)
             /\ chunk_descriptors' =
                  Append(chunk_descriptors,
                         [checksum |-> hash,
                          source_size |-> Len(comp_chunk.data),
                          archive_offset |-> archive_offset,
                          archive_size |-> Len(store_data)])
             /\ chunk_file' = chunk_file \o SubSeq(store_data, 1, written)
             /\ IF written = Len(store_data)
                THEN /\ archive_offset' = archive_offset + Len(store_data)
                     /\ UNCHANGED archive_pc
                ELSE /\ archive_pc' = "panicked"
                     /\ UNCHANGED archive_offset

\* process_chunk(comp_chunk), called for each unique chunk.
ProcessChunk(comp_chunk, written) ==
  /\ archive_pc = "chunking"
  /\ total_unique_chunks < MaxUnique
  /\ ProcessChunkBody(comp_chunk, written)
  /\ UNCHANGED <<chunkerVars, cliVars, hash_length, pipeVars>>

\* ------------------------------ unique_compressed_chunks and its callers

\* Largest worker pool.
MaxWorkers == 2

RECURSIVE BinValue(_)
\* A sequence of bits read as a binary number.
BinValue(data) ==
  IF data = <<>> THEN 0
  ELSE 2 * BinValue(SubSeq(data, 1, Len(data) - 1)) + data[Len(data)]

\* hasher(data): the Blake2b digest of a chunk, HashSize bytes long. The
\* digest is collision free on the modelled chunks: its first byte is the
\* length of the chunk and its second byte is the chunk read as a number.
Hasher(data) ==
  [i \in 1..HashSize |-> IF i = 1 THEN Len(data) ELSE IF i = 2 THEN BinValue(data) ELSE 0]

\* chunk_compressor(data): compression.compress(data), a deterministic
\* function of the chunk that shrinks a run of equal bytes and grows
\* anything else.
Compress(data) ==
  IF Len(data) >= 2 /\ \A i \in 1..Len(data) : data[i] = data[1]
  THEN <<CompressedByte>>
  ELSE data \o <<CompressedByte>>

\* A worker thread without a job.
NoJob == [n |-> -1, hash |-> <<>>, offset |-> 0, data |-> <<>>]

\* What the chunker hands to its callback over a whole scan. Between two
\* callbacks the pipeline does not observe the chunker: its steps are those
\* of Chunker::scan above, on a source whose reads do not fail.
ScannedChunks == ScanOf(source_data)

\* The position of a hash in the producer's map of seen hashes, or 0.
SeenAt(hash) ==
  IF \E k \in 1..Len(chunk_map) : chunk_map[k] = hash
  THEN CHOOSE k \in 1..Len(chunk_map) : chunk_map[k] = hash
  ELSE 0

\* A fan-in that delivers whatever has arrived.
FanInNextAny(items, exp) == items

\* OrderedFanIn::next: only the item that carries the expected sequence
\* number is delivered.
FanInNext(items, exp) == {it \in items : it.n = exp}

\* chunk_into_file calls unique_compressed_chunks(&mut chunker, hasher,
\* chunk_compressor, &pool, true, process_chunk) with a pool of p threads.
PipelineBegin(p) ==
  /\ pc = "ready"
  /\ pipe_pc = "idle"
  /\ pc' = "pipeline"
  /\ pipe_pc' = "running"
  /\ pool_size' = p
  /\ UNCHANGED <<paramVars, sourceVars, loopVars, buzhash_input_limit, appendVars, ret>>
  /\ UNCHANGED <<cliVars, archiveVars>>
  /\ UNCHANGED <<chunk_map, work_queue, workers, fanin, expected, chunk_order,
                 unique_chunks, rebuild_order>>

\* The producer: the chunker calls back with chunk n. Its strong hash is
\* computed; a chunk with a new hash is submitted to the pool, one with a
\* hash seen before is queued as a duplicate with the unique index of that
\* hash. No more than 2 * pool_size chunks are in flight.
ChunkCallback ==
  /\ pipe_pc = "running"
  /\ archive_pc = "chunking"
  /\ Len(emitted) < Len(ScannedChunks)
  /\ Len(emitted) - expected < 2 * pool_size
  /\ LET n == Len(emitted)
         chunk == ScannedChunks[n + 1]
         hash == Hasher(chunk.data)
     IN /\ emitted' = Append(emitted, chunk)
        /\ IF SeenAt(hash) # 0
           THEN /\ fanin' = fanin \cup {[n |-> n, duplicate |-> TRUE,
                                         unique_chunk_index |-> SeenAt(hash) - 1,
                                         chunk |-> NoChunk]}
                /\ UNCHANGED <<chunk_map, work_queue>>
           ELSE /\ chunk_map' = Append(chunk_map, hash)
                /\ work_queue' = Append(work_queue, [n |-> n, hash |-> hash,
                                                     offset |-> chunk.offset,
                                                     data |-> chunk.data])
                /\ UNCHANGED fanin
  /\ UNCHANGED <<pc, paramVars, sourceVars, buzhash, source_buf, source_index, buf_index,
                 chunk_start, hash_log, buzhash_input_limit, appendVars, ret>>
  /\ UNCHANGED <<cliVars, archiveVars>>
  /\ UNCHANGED <<pipe_pc, pool_size, workers, expected, chunk_order, unique_chunks,
                 rebuild_order>>

\* A thread of the pool takes the oldest job.
WorkerTake(w) ==
  /\ pipe_pc = "running"
  /\ w \in 1..pool_size
  /\ workers[w] = NoJob
  /\ work_queue # <<>>
  /\ workers' = [workers EXCEPT ![w] = Head(work_queue)]
  /\ work_queue' = Tail(work_queue)
  /\ UNCHANGED <<chunkerVars, cliVars, archiveVars>>
  /\ UNCHANGED <<pipe_pc, pool_size, chunk_map, fanin, expected, chunk_order,
                 unique_chunks, rebuild_order>>

\* A thread of the pool has compressed its chunk and submits the
\* CompressedChunk under the chunk's sequence number.
WorkerFinish(w) ==
  /\ pipe_pc = "running"
  /\ w \in 1..pool_size
  /\ workers[w] # NoJob
  /\ LET job == workers[w]
     IN fanin' = fanin \cup {[n |-> job.n, duplicate |-> FALSE, unique_chunk_index |-> 0,
                              chunk |-> [hash |-> job.hash, offset |-> job.offset,
                                         data |-> job.data, cdata |-> Compress(job.data)]]}
  /\ workers' = [workers EXCEPT ![w] = NoJob]
  /\ UNCHANGED <<chunkerVars, cliVars, archiveVars>>
  /\ UNCHANGED <<pipe_pc, pool_size, chunk_map, work_queue, expected, chunk_order,
                 unique_chunks, rebuild_order>>

\* The consumer takes the next item of the fan-in. A new unique chunk gets
\* the next unique index, a descriptor with that index is appended and
\* on_unique (process_chunk) is called; a duplicate gets a descriptor with
\* the index it was queued with.
Drain(written) ==
  /\ pipe_pc = "running"
  /\ archive_pc = "chunking"
  /\ \E it \in FanInNext(fanin, expected) :
       /\ fanin' = fanin \ {it}
       /\ expected' = expected + 1
       /\ IF it.duplicate
          THEN /\ written = 0
               /\ chunk_order' = Append(chunk_order, [unique_chunk_index |-> it.unique_chunk_index])
               /\ UNCHANGED <<unique_chunks, archiveVars>>
          ELSE /\ chunk_order' = Append(chunk_order, [unique_chunk_index |-> Len(unique_chunks)])
               /\ unique_chunks' = Append(unique_chunks, [n |-> it.n, chunk |-> it.chunk])
               /\ ProcessChunkBody(it.chunk, written)
               /\ UNCHANGED hash_length
  /\ UNCHANGED <<chunkerVars, cliVars>>
  /\ UNCHANGED <<pipe_pc, pool_size, chunk_map, work_queue, workers, rebuild_order>>

\* The chunker has returned Ok and every chunk went through the fan-in:
\* unique_compressed_chunks returns the descriptor vector.
PipelineReturn ==
  /\ pipe_pc = "running"
  /\ archive_pc = "chunking"
  /\ Len(emitted) = Len(ScannedChunks)
  /\ expected = Len(emitted)
  /\ pipe_pc' = "returned"
  /\ UNCHANGED <<chunkerVars, cliVars, archiveVars>>
  /\ UNCHANGED <<pool_size, chunk_map, work_queue, workers, fanin, expected, chunk_order,
                 unique_chunks, rebuild_order>>

\* An index taken one too high.
RebuildOrderOneBased(order) == [i \in 1..Len(order) |-> order[i].unique_chunk_index + 1]

\* run: rebuild_order is the unique_chunk_index of each source descriptor.
RebuildOrder(order) == [i \in 1..Len(order) |-> order[i].unique_chunk_index]

\* run builds the header of the archive from what chunk_into_file returned.
RunHeader ==
  /\ pipe_pc = "returned"
  /\ pipe_pc' = "header"
  /\ rebuild_order' = RebuildOrder(chunk_order)
  /\ UNCHANGED <<chunkerVars, cliVars, archiveVars>>
  /\ UNCHANGED <<pool_size, chunk_map, work_queue, workers, fanin, expected, chunk_order,
                 unique_chunks>>

\* ------------------------------------------------------------ specification

NoConfig ==
  [hash_length |-> 0, chunk_filter_bits |-> 0, min_chunk_size |-> 0,
   max_chunk_size |-> 0, hash_window_size |-> 0, compression_level |-> 0,
   compression |-> "none"]

\* Before any call: the source holds its bytes.
InitChunker ==
  /\ pc = "start"
  /\ filter_bits = 0
  /\ filter_mask = {}
  /\ min_chunk_size = 0
  /\ max_chunk_size = 0
  /\ buzhash = BuzHashNew(1)
  /\ source_pos = 0
  /\ preloaded = 0
  /\ source_err = "none"
  /\ source_buf = <<>>
  /\ source_index = 0
  /\ buf_index = 0
  /\ chunk_start = 0
  /\ buzhash_input_limit = 0
  /\ buf_size = 0
  /\ read_size = 0
  /\ emitted = <<>>
  /\ hash_log = <<>>
  /\ ret = [ok |-> TRUE, err |-> "none"]

InitCli ==
  /\ config = NoConfig
  /\ cli_error = "none"

\* chunk_into_file before the first unique chunk.
InitArchive ==
  /\ total_unique_chunks = 0
  /\ total_unique_chunk_size = 0
  /\ total_compressed_size = 0
  /\ archive_offset = 0
  /\ chunk_descriptors = <<>>
  /\ chunk_file = <<>>
  /\ last_chunk = NoChunk
  /\ archive_pc = "chunking"

\* unique_compressed_chunks before it is called.
InitPipe ==
  /\ pipe_pc = "idle"
  /\ pool_size = 0
  /\ chunk_map = <<>>
  /\ work_queue = <<>>
  /\ workers = [w \in 1..MaxWorkers |-> NoJob]
  /\ fanin = {}
  /\ expected = 0
  /\ chunk_order = <<>>
  /\ unique_chunks = <<>>
  /\ rebuild_order = <<>>

Init ==
  /\ InitChunker
  /\ source_data \in SeqsUpTo(Bytes, MaxLen)
  /\ InitCli
  /\ InitArchive
  /\ InitPipe
  /\ hash_length = HashSize

NextScan ==
  \/ \E bits \in 0..MaxBits, mn \in 0..MaxChunk, mx \in 1..MaxChunk,
        w \in 1..MaxWindow, oc \in BOOLEAN :
       ChunkerParamsNew(bits, mn, mx, w, oc)
  \/ ChunkerNew
  \/ ScanBegin
  \/ AppendBegin
  \/ \E rc \in 1..CHUNKER_BUF_SIZE : ReadSome(rc)
  \/ \E e \in IoErrors : ReadErr(e)
  \/ AppendReturn
  \/ InitLoop
  \/ ScanLoop

vars == <<chunkerVars, cliVars, archiveVars, pipeVars>>

\* A caller that builds a chunker and scans, as the chunker's tests do.
Next == NextScan

Spec == Init /\ [][Next]_vars

\* A caller that may also peek at the source and preload what it read.
NextPreload ==
  \/ NextScan
  \/ \E k \in 1..MaxLen : Preload(k)

SpecPreload == Init /\ [][NextPreload]_vars

\* The archiver's callback, called once per unique chunk; --hash-length is
\* not checked against the length of the hash.
InitProcess ==
  /\ InitChunker
  /\ source_data = <<>>
  /\ InitCli
  /\ InitArchive
  /\ InitPipe
  /\ hash_length \in 1..(HashSize + 1)

NextProcess ==
  \E comp_chunk \in CompressedChunks, written \in 0..(MaxData + 1) :
     ProcessChunk(comp_chunk, written)

SpecProcess == InitProcess /\ [][NextProcess]_vars

\* The compress command from its command line to the chunker's parameters.
InitCompress ==
  /\ InitChunker
  /\ source_data = <<>>
  /\ InitCli
  /\ InitArchive
  /\ InitPipe
  /\ hash_length = HashSize

AvgArgs == {<<>>, <<<<"0">>>>, <<<<"1", "B">>>>, <<<<"8", "K", "i", "B">>>>,
            <<<<"1", "G", "i", "B">>>>, <<<<"2", "k", "B">>>>}
MinArgs == {<<>>, <<<<"0">>>>, <<<<"1", "K", "i", "B">>>>}
MaxArgs == {<<>>, <<<<"6", "4", "K", "i", "B">>>>, <<<<"1", "G", "i", "B">>>>}
WindowArgs == {<<>>, <<<<"4">>>>, <<<<"K", "i", "B">>>>}
HashLengthArgs == {<<>>, <<<<"3", "2">>>>, <<<<"x">>>>}
LevelArgs == {<<>>, <<<<"0">>>>, <<<<"1", "9">>>>, <<<<"2", "0">>>>, <<<<"-", "1">>>>}
CompressionArgs == {<<>>, <<"ZSTD">>, <<"zstd">>}

NextCompress ==
  \/ \E avg_arg \in AvgArgs, min_arg \in MinArgs, max_arg \in MaxArgs,
        window_arg \in WindowArgs, hash_length_arg \in HashLengthArgs,
        level_arg \in LevelArgs, compression_arg \in CompressionArgs,
        usize_bits \in UsizeBits :
       ParseOpts(avg_arg, min_arg, max_arg, window_arg, hash_length_arg, level_arg,
                 compression_arg, usize_bits)
  \/ \E oc \in BOOLEAN : ChunkIntoFileParams(oc)

SpecCompress == InitCompress /\ [][NextCompress]_vars

\* Longest source and largest chunk sizes of the scans that follow the
\* feeding of the hash: large enough for a chunk after the first to have
\* bytes below the input limit and a digest read below max_chunk_size.
MaxFeedLen == 6
MaxFeedChunk == 4

InitFeed ==
  /\ InitChunker
  /\ source_data \in SeqsUpTo(Bytes, MaxFeedLen)
  /\ InitCli
  /\ InitArchive
  /\ InitPipe
  /\ hash_length = HashSize

\* A caller that scans with min_chunk_size <= max_chunk_size and reads that
\* do not fail.
NextFeed ==
  \/ \E mn \in 0..(MaxFeedChunk - 1), mx \in 2..MaxFeedChunk, w \in 1..MaxWindow :
       mn <= mx /\ ChunkerParamsNew(1, mn, mx, w, TRUE)
  \/ ChunkerNew
  \/ ScanBegin
  \/ AppendBegin
  \/ \E rc \in 1..CHUNKER_BUF_SIZE : ReadSome(rc)
  \/ AppendReturn
  \/ InitLoop
  \/ ScanLoop

SpecFeed == InitFeed /\ [][NextFeed]_vars

\* A caller that scans with windows of up to one byte more than a refill
\* holds, so that the initialisation of the hash goes on after a refill.
NextRefill ==
  \/ \E mn \in 0..MaxChunk, mx \in 1..MaxChunk, w \in 1..(CHUNKER_BUF_SIZE + 1) :
       ChunkerParamsNew(1, mn, mx, w, TRUE)
  \/ ChunkerNew
  \/ ScanBegin
  \/ AppendBegin
  \/ \E rc \in 1..CHUNKER_BUF_SIZE : ReadSome(rc)
  \/ \E e \in IoErrors : ReadErr(e)
  \/ AppendReturn
  \/ InitLoop
  \/ ScanLoop

SpecRefill == Init /\ [][NextRefill]_vars

\* The archiver: a chunker is built and handed to unique_compressed_chunks
\* together with a pool of 1..MaxWorkers threads; the header is built from
\* what it returns.
NextPipeline ==
  \/ \E mn \in 0..1, mx \in 1..(MaxChunk - 1), oc \in BOOLEAN :
       ChunkerParamsNew(1, mn, mx, 1, oc)
  \/ ChunkerNew
  \/ \E p \in 1..MaxWorkers : PipelineBegin(p)
  \/ ChunkCallback
  \/ \E w \in 1..MaxWorkers : WorkerTake(w)
  \/ \E w \in 1..MaxWorkers : WorkerFinish(w)
  \/ \E written \in 0..(MaxLen + 1) : Drain(written)
  \/ PipelineReturn
  \/ RunHeader

SpecPipeline == Init /\ [][NextPipeline]_vars

\* ------------------------------------------------------------------ claims

\* scan has returned Ok.
ScanOk == pc = "done" /\ ret.ok

RECURSIVE ConcatData(_)
\* The bytes of a sequence of chunks, in order.
ConcatData(chunks) ==
  IF chunks = <<>> THEN <<>> ELSE Head(chunks).data \o ConcatData(Tail(chunks))

RECURSIVE SumLen(_, _)
\* The summed length of the first n chunks.
SumLen(chunks, n) ==
  IF n = 0 THEN 0 ELSE SumLen(chunks, n - 1) + Len(chunks[n].data)

\* The chunks emitted before the last one.
NonFinal == 1..(Len(emitted) - 1)

IsPrefix(s, t) == s = <<>> \/ (Len(s) <= Len(t) /\ SubSeq(t, 1, Len(s)) = s)

RECURSIVE DigestOf(_, _)
\* The digest of a full window computed from scratch: the xor over the window
\* of rotl(tab[window[i]], W - 1 - i), i counted from 0.
DigestOf(window, w) ==
  IF window = <<>> THEN {}
  ELSE BitXor(RotL(BuzTable(Head(window)), (w - 1) % 32), DigestOf(Tail(window), w - 1))

\* The digest over the W source bytes that end at absolute offset e (e >= W).
WindowDigest(e) ==
  DigestOf(SubSeq(source_data, e - buzhash.window_size + 1, e), buzhash.window_size)

\* The cut-point rule at length l of a chunk that starts at offset o.
CutRule(o, l) ==
  \/ l >= max_chunk_size
  \/ /\ l >= min_chunk_size
     /\ o + l >= buzhash.window_size
     /\ filter_mask \subseteq WindowDigest(o + l)

\* C1: when scan returns Ok on a source with nothing preloaded, the chunks
\* passed to the callback, concatenated in call order, are the source, each
\* chunk is not empty, and each offset is the summed length of the chunks
\* before it.
C1_Coverage ==
  (ScanOk /\ preloaded = 0) =>
    /\ ConcatData(emitted) = source_data
    /\ \A i \in 1..Len(emitted) :
         /\ emitted[i].offset = SumLen(emitted, i - 1)
         /\ emitted[i].data # <<>>

C1_Witness ==
  /\ ScanOk
  /\ preloaded = 0
  /\ Len(emitted) >= 3
  /\ Len(source_data) = MaxLen
  /\ \E i \in NonFinal : Len(emitted[i].data) < max_chunk_size

\* C2: with min_chunk_size <= max_chunk_size, W >= 1 and filter_bits in
\* 1..32, every chunk but the last has a length in
\* [min_chunk_size, max_chunk_size], the first chunk included.
C2_SizeBounds ==
  (/\ ScanOk
   /\ preloaded = 0
   /\ min_chunk_size <= max_chunk_size
   /\ buzhash.window_size >= 1
   /\ filter_bits \in 1..32) =>
    \A i \in NonFinal :
       /\ Len(emitted[i].data) >= min_chunk_size
       /\ Len(emitted[i].data) <= max_chunk_size

\* C3: every chunk but the last, the first chunk of the stream included, ends
\* at the first length at which the cut-point rule is satisfied: the rule
\* holds at its length and at no smaller length. (Stated for parameters with
\* min_chunk_size <= max_chunk_size and filter_bits in 1..32; a digest is
\* only consulted where the hash is valid.)
C3_CutRule ==
  (/\ ScanOk
   /\ preloaded = 0
   /\ min_chunk_size <= max_chunk_size
   /\ filter_bits \in 1..32) =>
    \A i \in NonFinal :
       /\ CutRule(emitted[i].offset, Len(emitted[i].data))
       /\ \A l \in 1..(Len(emitted[i].data) - 1) : ~CutRule(emitted[i].offset, l)

\* C4: preload(P) followed by scan on a source that yields R calls the
\* callback exactly as scan with nothing preloaded does on a source that
\* yields P followed by R. (Stated for filter_bits in 1..32; source_data is
\* P followed by R, and preloaded is the length of P.)
C4_PreloadEquivalence ==
  (ScanOk /\ filter_bits \in 1..32) => emitted = ScanOf(source_data)

\* C5: once a read of the source has failed, scan has returned that error,
\* the step of the failing read and every later step leave the callback
\* uncalled, and the chunks emitted are a prefix of those of an error-free
\* scan of the same bytes.
C5_ReadError ==
  /\ [](source_err # "none" =>
          /\ pc = "done"
          /\ ret = [ok |-> FALSE, err |-> source_err]
          /\ IsPrefix(emitted, ScanOf(source_data)))
  /\ [][source_err' # "none" => emitted' = emitted]_vars

C5_Witness ==
  /\ source_err # "none"
  /\ emitted # <<>>
  /\ read_size > 0
  /\ Len(source_buf) > CHUNKER_BUF_SIZE
  /\ Len(ScanOf(source_data)) > Len(emitted)

\* C6: with min_chunk_size >= max_chunk_size every chunk but the last has
\* length exactly max_chunk_size. (Stated for a window shorter than
\* max_chunk_size, so that the first W bytes, which the hash initialisation
\* consumes without a cut decision, play no part.)
C6_CutAtMax ==
  (/\ ScanOk
   /\ preloaded = 0
   /\ filter_bits \in 1..32
   /\ min_chunk_size >= max_chunk_size
   /\ buzhash.window_size < max_chunk_size) =>
    \A i \in NonFinal : Len(emitted[i].data) = max_chunk_size

\* C7: ChunkerParams::new with filter_bits = 0 yields filter_mask = 0, and a
\* scan with these parameters emits chunks that all have length exactly
\* min_chunk_size, except possibly the last.
C7_FilterBitsZero ==
  (pc # "start" /\ filter_bits = 0) =>
    /\ pc # "panicked"
    /\ filter_mask = {}
    /\ ScanOk => \A i \in NonFinal : Len(emitted[i].data) = min_chunk_size

\* C10: parameters with min_chunk_size > max_chunk_size or W < 1 are rejected
\* when the chunker is constructed (ChunkerParams::new followed by
\* Chunker::new): no chunker holds them and scan never runs with them.
\* (Stated for filter_bits in 1..32.)
C10_InvalidParamsRejected ==
  (/\ filter_bits \in 1..32
   /\ min_chunk_size > max_chunk_size \/ buzhash.window_size < 1) =>
    pc \notin {"ready", "fill", "read", "init", "scan", "done"}

\* C8: the payload process_chunk writes for a unique chunk is cdata when
\* compression shrank the chunk (len(cdata) < len(data)) and the original
\* data whenever it did not (len(cdata) >= len(data)); archive_size is the
\* length of the payload written and source_size is len(data).
C8_StoredPayload ==
  (archive_pc = "chunking" /\ chunk_descriptors # <<>>) =>
    LET d == chunk_descriptors[Len(chunk_descriptors)]
        payload == SubSeq(chunk_file, d.archive_offset + 1, Len(chunk_file))
    IN /\ payload = IF Len(last_chunk.cdata) < Len(last_chunk.data)
                    THEN last_chunk.cdata
                    ELSE last_chunk.data
       /\ d.archive_size = Len(payload)
       /\ d.source_size = Len(last_chunk.data)

\* C9: the chunk_filter_bits parse_opts places in CompressConfig lies in
\* [1, 32], so the shift amount 32 - chunk_filter_bits that
\* ChunkerParams::new uses is in [0, 31].
C9_FilterBitsValidated ==
  (pc = "parsed") =>
    /\ config.chunk_filter_bits \in 1..32
    /\ 32 - config.chunk_filter_bits \in 0..31

\* C11: scan never calls the callback with an empty slice, whether or not it
\* goes on to return Ok, also when the last cut falls on the end of the
\* source; on an empty source with nothing preloaded and no failing read it
\* returns Ok without having called the callback.
C11_NoEmptyChunk ==
  /\ \A i \in 1..Len(emitted) : emitted[i].data # <<>>
  /\ (pc = "done" /\ source_data = <<>> /\ preloaded = 0 /\ source_err = "none") =>
       (ret.ok /\ emitted = <<>>)

\* The last cut fell on the end of the source: the end-of-file branch found
\* an empty buffer.
C11_Witness ==
  /\ ScanOk
  /\ preloaded = 0
  /\ source_buf = <<>>
  /\ Len(emitted) >= 2
  /\ ConcatData(emitted) = source_data

RECURSIVE ConcatByIndex(_, _)
\* The bytes of the unique chunks the indices of order point to, in order.
ConcatByIndex(order, uniques) ==
  IF order = <<>> THEN <<>>
  ELSE uniques[Head(order) + 1].chunk.data \o ConcatByIndex(Tail(order), uniques)

\* C12: after unique_compressed_chunks has returned and run has written the
\* descriptor vector as rebuild_order, every index in rebuild_order is
\* smaller than the number of on_unique invocations, which is the number of
\* chunk_descriptors, and the bytes of the unique chunks the indices point
\* to, concatenated in descriptor order, are the source.
C12_DedupSoundness ==
  (pipe_pc = "header") =>
    /\ Len(chunk_descriptors) = Len(unique_chunks)
    /\ Len(rebuild_order) = Len(chunk_order)
    /\ \A i \in 1..Len(rebuild_order) :
         rebuild_order[i] >= 0 /\ rebuild_order[i] < Len(chunk_descriptors)
    /\ ConcatByIndex(rebuild_order, unique_chunks) = source_data

\* A source with a chunk that repeats after another chunk came between.
C12_Witness ==
  /\ pipe_pc = "header"
  /\ pool_size = MaxWorkers
  /\ Len(unique_chunks) >= 2
  /\ \E i, j \in 1..Len(rebuild_order) :
       /\ i + 1 < j
       /\ rebuild_order[i] = rebuild_order[j]
       /\ rebuild_order[i + 1] # rebuild_order[i]

RECURSIVE FirstSeen(_, _)
\* The chunks of a sequence whose bytes no earlier chunk has, in order, as
\* CompressedChunk values; seen holds the bytes met so far.
FirstSeen(chunks, seen) ==
  IF chunks = <<>> THEN <<>>
  ELSE LET c == Head(chunks)
       IN IF c.data \in seen
          THEN FirstSeen(Tail(chunks), seen)
          ELSE <<[hash |-> Hasher(c.data), offset |-> c.offset, data |-> c.data,
                  cdata |-> Compress(c.data)]>>
               \o FirstSeen(Tail(chunks), seen \cup {c.data})

\* The index, counted from 0, of the first-seen chunk that has the bytes of
\* chunk i.
UniqueIndexOf(chunks, i) ==
  LET first == CHOOSE j \in 1..i :
                 /\ chunks[j].data = chunks[i].data
                 /\ \A l \in 1..(j - 1) : chunks[l].data # chunks[i].data
  IN Cardinality({chunks[j].data : j \in 1..first}) - 1

\* The descriptor vector of a sequence of chunks.
OrderOf(chunks) ==
  [i \in 1..Len(chunks) |-> [unique_chunk_index |-> UniqueIndexOf(chunks, i)]]

\* The chunks on_unique was called with.
UniqueCalls == [k \in 1..Len(unique_chunks) |-> unique_chunks[k].chunk]

\* C13: whatever the size of the pool and the order in which the workers
\* take and finish their chunks, the calls of on_unique are the first-seen
\* chunks of the source in source order, each once, and the descriptor
\* vector is that of the source's chunks: at every moment both are a prefix
\* of what the chunks alone determine, and at the return they are all of it.
\* on_unique is never called for a chunk before it was called for an
\* earlier unique chunk, and the archive offsets follow one another.
C13_PipelineDeterminism ==
  /\ IsPrefix(UniqueCalls, FirstSeen(ScannedChunks, {}))
  /\ IsPrefix(chunk_order, OrderOf(ScannedChunks))
  /\ \A k \in 1..(Len(unique_chunks) - 1) : unique_chunks[k].n < unique_chunks[k + 1].n
  /\ (pipe_pc \in {"returned", "header"}) =>
       /\ UniqueCalls = FirstSeen(ScannedChunks, {})
       /\ chunk_order = OrderOf(ScannedChunks)
  /\ (archive_pc = "chunking") =>
       \A k \in 1..Len(chunk_descriptors) :
          chunk_descriptors[k].archive_offset =
            IF k = 1 THEN 0
            ELSE chunk_descriptors[k - 1].archive_offset + chunk_descriptors[k - 1].archive_size

\* Two workers hold chunks at once and the later chunk is finished first:
\* its CompressedChunk waits in the fan-in while the chunk the consumer
\* expects is still being compressed, after on_unique was already called.
C13_Witness ==
  /\ pipe_pc = "running"
  /\ pool_size = MaxWorkers
  /\ unique_chunks # <<>>
  /\ \E it \in fanin : ~it.duplicate /\ it.n > expected
  /\ \E w \in 1..pool_size : workers[w].n = expected

\* The indices of hash_log at which a byte is fed to the hash.
FeedIndices == {k \in 1..Len(hash_log) : hash_log[k].call \in {"init", "input"}}

\* The start of the chunk a logged call belongs to.
ChunkStartOf(k) == hash_log[k].pos - hash_log[k].len

\* The W bytes fed last when the call at index k of hash_log is made, as
\* indices of hash_log; fewer when fewer were fed.
LastFedBefore(k) ==
  {j \in FeedIndices :
     /\ j < k
     /\ Cardinality({l \in FeedIndices : j <= l /\ l < k}) <= buzhash.window_size}

\* C14 as claimed: after every chunk boundary the first byte fed to the hash
\* is delivered with init and the further bytes of that chunk with input, and
\* no byte of an earlier chunk is among the W bytes fed last when the digest
\* is read. (Stated for filter_bits in 1..32 and W < max_chunk_size, with
\* min_chunk_size <= max_chunk_size.)
C14_ResetAtBoundary ==
  (/\ filter_bits \in 1..32
   /\ min_chunk_size <= max_chunk_size
   /\ buzhash.window_size < max_chunk_size) =>
    \A k \in 1..Len(hash_log) :
       /\ (k \in FeedIndices /\ ChunkStartOf(k) > 0) =>
            (hash_log[k].call = "init") =
               (\A j \in FeedIndices : j < k => ChunkStartOf(j) # ChunkStartOf(k))
       /\ (hash_log[k].call = "sum") =>
            \A j \in LastFedBefore(k) : hash_log[j].pos > ChunkStartOf(k)

\* C14 as amended: init is called only for the first W bytes of the stream;
\* after a chunk boundary every byte fed to the hash, the first included, is
\* delivered with input. With min_chunk_size >= W no byte of an earlier
\* chunk is among the W bytes fed last when the digest is read.
C14_InitOnlyAtStreamStart ==
  \A k \in 1..Len(hash_log) :
     /\ (hash_log[k].call = "init") =>
          (hash_log[k].pos <= buzhash.window_size /\ ChunkStartOf(k) = 0)
     /\ (k \in FeedIndices /\ ChunkStartOf(k) > 0) => hash_log[k].call = "input"
     /\ (hash_log[k].call = "sum" /\ min_chunk_size >= buzhash.window_size) =>
          /\ Cardinality(LastFedBefore(k)) = buzhash.window_size
          /\ \A j \in LastFedBefore(k) : hash_log[j].pos > ChunkStartOf(k)

\* The digest was read in a chunk that is not the first, after the first
\* byte of that chunk was fed.
C14_Witness ==
  /\ ScanOk
  /\ min_chunk_size >= buzhash.window_size
  /\ \E k \in 1..Len(hash_log) :
       /\ hash_log[k].call = "sum"
       /\ ChunkStartOf(k) > 0
       /\ \E j \in FeedIndices : j < k /\ hash_log[j].pos = ChunkStartOf(k) + 1

\* max(0, min_chunk_size - W)
FeedLimit ==
  IF min_chunk_size - buzhash.window_size > 0
  THEN min_chunk_size - buzhash.window_size
  ELSE 0

\* C15 as claimed: a byte is fed to the hash, by init or by input, only at a
\* chunk length, counting that byte, of at least max(0, min_chunk_size - W),
\* in the first chunk as in every other. (Stated for filter_bits in 1..32
\* and W < max_chunk_size, with min_chunk_size <= max_chunk_size.)
C15_FeedOnlyAtLimit ==
  (/\ filter_bits \in 1..32
   /\ min_chunk_size <= max_chunk_size
   /\ buzhash.window_size < max_chunk_size) =>
    \A k \in FeedIndices : hash_log[k].len >= FeedLimit

\* C15 as amended: a byte is fed with input only at a chunk length of at
\* least max(0, min_chunk_size - W); the first W bytes of the stream are fed
\* with init whatever their chunk length. When scan has returned Ok, the
\* bytes that were fed are exactly these: the first W bytes of the source
\* and every later byte at a chunk length of at least the limit.
C15_InputOnlyAtLimit ==
  /\ \A k \in FeedIndices :
       \/ hash_log[k].call = "input" /\ hash_log[k].len >= FeedLimit
       \/ /\ hash_log[k].call = "init"
          /\ hash_log[k].pos <= buzhash.window_size
          /\ ChunkStartOf(k) = 0
  /\ (ScanOk /\ preloaded = 0) =>
       {hash_log[k].pos : k \in FeedIndices} =
         UNION {{emitted[i].offset + l : l \in {m \in 1..Len(emitted[i].data) :
                                                  \/ emitted[i].offset + m <= buzhash.window_size
                                                  \/ m >= FeedLimit}} :
                i \in 1..Len(emitted)}

\* A scan with a limit above 1 whose first byte went to init below the
\* limit, and in which a later chunk began with a byte that was not fed.
C15_Witness ==
  /\ ScanOk
  /\ preloaded = 0
  /\ FeedLimit >= 2
  /\ Len(emitted) >= 2
  /\ hash_log[1].call = "init"
  /\ \E k \in FeedIndices : hash_log[k].call = "input" /\ ChunkStartOf(k) > 0
  /\ \E i \in 2..Len(emitted) :
       emitted[i].offset + 1 \notin {hash_log[k].pos : k \in FeedIndices}

\* C16: whenever scan reads the digest for a cut decision, at least W bytes
\* were fed to the hash and the W bytes fed last are the W consecutive bytes
\* of the source that end at the byte just consumed; the hash is then valid,
\* its window holds these bytes and its digest is the digest of that window
\* computed from scratch. This holds for every min_chunk_size,
\* max_chunk_size and W, in every chunk and wherever the refills fall.
C16_WindowAlignment ==
  /\ \A k \in 1..Len(hash_log) :
       (hash_log[k].call = "sum") =>
         /\ hash_log[k].pos >= buzhash.window_size
         /\ {hash_log[j].pos : j \in LastFedBefore(k)} =
              (hash_log[k].pos - buzhash.window_size + 1)..hash_log[k].pos
         /\ Cardinality(LastFedBefore(k)) = buzhash.window_size
  /\ (/\ pc = "scan"
      /\ hash_log # <<>>
      /\ hash_log[Len(hash_log)].call = "sum"
      /\ hash_log[Len(hash_log)].pos = source_index) =>
       /\ BuzValid(buzhash)
       /\ buzhash.buf = SubSeq(source_data, source_index - buzhash.window_size + 1, source_index)
       /\ BuzSum(buzhash) = WindowDigest(source_index)

\* The digest was just read in a chunk that is not the first and whose
\* first byte was not fed, the limit being above 1, after a refill.
C16_Witness ==
  /\ pc = "scan"
  /\ hash_log # <<>>
  /\ hash_log[Len(hash_log)].call = "sum"
  /\ hash_log[Len(hash_log)].pos = source_index
  /\ ChunkStartOf(Len(hash_log)) > 0
  /\ buzhash_input_limit >= 2
  /\ source_index > CHUNKER_BUF_SIZE
  /\ \A j \in FeedIndices : hash_log[j].pos # ChunkStartOf(Len(hash_log)) + 1

\* C17: for fixed parameters the calls of the callback are a function of the
\* bytes of the source only. However the source splits its bytes across
\* reads and wherever the refills fall, what scan has emitted is at every
\* moment a prefix of what a scan that gets the whole source in one refill
\* emits, and it is all of it when scan returns Ok.
C17_ReadIndependence ==
  (preloaded = 0) =>
    /\ IsPrefix(emitted, ScanWhole(source_data))
    /\ ScanOk => emitted = ScanWhole(source_data)

\* A short read after a refill boundary that fell inside a chunk, later
\* than the first chunk.
C17_Witness ==
  /\ pc = "read"
  /\ preloaded = 0
  /\ read_size \in 1..(CHUNKER_BUF_SIZE - 1)
  /\ buf_size > 0
  /\ emitted # <<>>
  /\ source_pos < Len(source_data)

\* No window of W consecutive bytes of the source has a digest that
\* satisfies the filter mask.
NoWindowMatches ==
  \A e \in buzhash.window_size..Len(source_data) : ~(filter_mask \subseteq WindowDigest(e))

\* C18: on a source on which the digest never satisfies the filter mask,
\* with min_chunk_size <= max_chunk_size and W < max_chunk_size, every chunk
\* but the last has length exactly max_chunk_size, and the offsets of the
\* chunks are 0, max_chunk_size, 2 * max_chunk_size, ...
C18_CutAtMaxNoMatch ==
  (/\ ScanOk
   /\ preloaded = 0
   /\ min_chunk_size <= max_chunk_size
   /\ buzhash.window_size < max_chunk_size
   /\ NoWindowMatches) =>
    /\ \A i \in NonFinal : Len(emitted[i].data) = max_chunk_size
    /\ \A i \in 1..Len(emitted) : emitted[i].offset = (i - 1) * max_chunk_size

\* Such a scan that read the digest below max_chunk_size and emitted two
\* chunks before a shorter residual.
C18_Witness ==
  /\ ScanOk
  /\ preloaded = 0
  /\ min_chunk_size < max_chunk_size
  /\ buzhash.window_size < max_chunk_size
  /\ NoWindowMatches
  /\ Len(emitted) >= 3
  /\ Len(emitted[Len(emitted)].data) < max_chunk_size
  /\ \E k \in 1..Len(hash_log) : hash_log[k].call = "sum" /\ ChunkStartOf(k) > 0

\* How many bytes of source_buf were read from the source: inside
\* append_to_buf the buffer ends in bytes that no read has filled yet.
BufFilled == IF pc = "read" THEN buf_size + read_size ELSE Len(source_buf)

\* The last call of the callback.
LastEmitted(chunks) == chunks[Len(chunks)]

\* C19: at every point of scan's loops the buffer holds, in their order, the
\* bytes of the source from absolute offset chunk_start up to what was read
\* (so source_buf[0] is the byte at offset chunk_start), and buf_index =
\* source_index - chunk_start. A step that emits a chunk of length L from
\* the scanning loop passes the first L bytes of the buffer with offset
\* chunk_start, removes exactly these bytes, leaves the rest in its order,
\* sets buf_index to 0 and moves chunk_start just past the chunk.
C19_BufferRebasing ==
  /\ [](pc \in {"fill", "read", "init", "scan"} =>
          /\ buf_index = source_index - chunk_start
          /\ chunk_start + BufFilled = source_pos
          /\ SubSeq(source_buf, 1, BufFilled) = SubSeq(source_data, chunk_start + 1, source_pos)
          /\ buf_index <= BufFilled)
  /\ [][(pc = "scan" /\ emitted' # emitted) =>
          LET chunk == LastEmitted(emitted')
              L == Len(chunk.data)
          IN /\ Len(emitted') = Len(emitted) + 1
             /\ chunk.offset = chunk_start
             /\ chunk.data = SubSeq(source_buf, 1, L)
             /\ Len(source_buf') = Len(source_buf) - L
             /\ source_buf' = SubSeq(source_buf, L + 1, Len(source_buf))
             /\ buf_index' = 0
             /\ chunk_start' = chunk_start + L
             /\ source_index' = chunk_start']_vars

\* After two chunks and a second refill, bytes from behind the last chunk
\* are in the buffer, some of them scanned.
C19_Witness ==
  /\ pc = "scan"
  /\ Len(emitted) >= 2
  /\ chunk_start > 0
  /\ source_pos > CHUNKER_BUF_SIZE
  /\ buf_index > 0
  /\ buf_index < Len(source_buf)

====
